---------------------------- MODULE Spec2Model ----------------------------
(***************************************************************************)
(* Model of .github/scripts/check_env_ymls_conda_present.py: the CI gate   *)
(* that checks that every package pinned in a conda export file is         *)
(* installed in a named conda environment of a container image.            *)
(*                                                                         *)
(* Strings are sequences of one-character strings, so that strip, lower,   *)
(* replace, splitlines, split and sorted are computed character by         *)
(* character as Python computes them.                                      *)
(***************************************************************************)
EXTENDS Integers, Sequences, FiniteSets, TLC

VARIABLES
    pc,          \* position of the run in main()
    pinsFile,    \* what the file system holds at the --pins path
    argvIgnore,  \* args.ignore: the --ignore arguments, as given
    required,    \* main's `required`
    ignore,      \* main's `ignore`
    proc,        \* what the `docker run` child process did
    installed,   \* main's `installed`
    missing,     \* main's `missing`
    stdout,      \* lines printed to sys.stdout
    stderr,      \* lines printed to sys.stderr
    launches,    \* number of subprocess.check_output calls made
    exitCode     \* exit status of the process, NotExited while it runs

vars == <<pc, pinsFile, argvIgnore, required, ignore, proc, installed,
          missing, stdout, stderr, launches, exitCode>>

---------------------------------------------------------------------------
(* Characters *)

UPPER == <<"A","B","C","D","E","F","G","H","I","J","K","L","M",
           "N","O","P","Q","R","S","T","U","V","W","X","Y","Z">>

LOWER == <<"a","b","c","d","e","f","g","h","i","j","k","l","m",
           "n","o","p","q","r","s","t","u","v","w","x","y","z">>

\* The characters of the model in code point order (Python compares strings
\* by code point).
ASCII == <<"\t", "\n", "\r", " ", "#", "-", ".", "0", "1", "2", "=">>
         \o UPPER \o <<"_">> \o LOWER

Chars == {ASCII[i] : i \in 1..Len(ASCII)}

Ord == [c \in Chars |-> CHOOSE i \in 1..Len(ASCII) : ASCII[i] = c]

\* str.strip() with no argument removes whitespace.
Whitespace == {" ", "\t", "\n", "\r"}

\* str.lower() on one character.
ToLower == [c \in Chars |->
              IF \E i \in 1..Len(UPPER) : UPPER[i] = c
              THEN LOWER[CHOOSE i \in 1..Len(UPPER) : UPPER[i] = c]
              ELSE c]

---------------------------------------------------------------------------
(* String methods *)

RECURSIVE lstrip(_)
lstrip(s) ==
    IF s # <<>> /\ Head(s) \in Whitespace THEN lstrip(Tail(s)) ELSE s

RECURSIVE rstrip(_)
rstrip(s) ==
    IF s # <<>> /\ s[Len(s)] \in Whitespace
    THEN rstrip(SubSeq(s, 1, Len(s) - 1))
    ELSE s

strip(s) == rstrip(lstrip(s))

lower(s) == [i \in 1..Len(s) |-> ToLower[s[i]]]

\* s.replace("_", "-")
replace_underscore(s) == [i \in 1..Len(s) |-> IF s[i] = "_" THEN "-" ELSE s[i]]

\* Mutant of normalize: the .lower() call is forgotten.
normalize_no_lower(name) == replace_underscore(strip(name))

normalize(name) == replace_underscore(lower(strip(name)))

\* str.splitlines(): the text is cut at every "\n", "\r" and "\r\n"; the
\* line breaks are dropped and no empty last line is produced.
RECURSIVE splitlines_loop(_, _, _)
splitlines_loop(rest, cur, acc) ==
    IF rest = <<>>
    THEN IF cur = <<>> THEN acc ELSE Append(acc, cur)
    ELSE IF Head(rest) = "\n"
    THEN splitlines_loop(Tail(rest), <<>>, Append(acc, cur))
    ELSE IF Head(rest) = "\r"
    THEN IF Len(rest) >= 2 /\ rest[2] = "\n"
         THEN splitlines_loop(Tail(Tail(rest)), <<>>, Append(acc, cur))
         ELSE splitlines_loop(Tail(rest), <<>>, Append(acc, cur))
    ELSE splitlines_loop(Tail(rest), Append(cur, Head(rest)), acc)

splitlines(text) == splitlines_loop(text, <<>>, <<>>)

\* line.split("=", 1)[0]: the text before the first "=".
RECURSIVE split_eq_first(_)
split_eq_first(line) ==
    IF line = <<>> \/ Head(line) = "="
    THEN <<>>
    ELSE <<Head(line)>> \o split_eq_first(Tail(line))

\* Python's order on str: by code point, a proper prefix first.
RECURSIVE str_less(_, _)
str_less(a, b) ==
    IF b = <<>> THEN FALSE
    ELSE IF a = <<>> THEN TRUE
    ELSE IF Head(a) = Head(b) THEN str_less(Tail(a), Tail(b))
    ELSE Ord[Head(a)] < Ord[Head(b)]

\* Mutant of sorted: the list is built in descending order.
RECURSIVE sorted_descending(_)
sorted_descending(S) ==
    IF S = {} THEN <<>>
    ELSE LET m == CHOOSE m \in S : \A o \in S \ {m} : str_less(o, m)
         IN  <<m>> \o sorted_descending(S \ {m})

\* sorted(...) of a list without duplicates.
RECURSIVE sorted(_)
sorted(S) ==
    IF S = {} THEN <<>>
    ELSE LET m == CHOOSE m \in S : \A o \in S \ {m} : str_less(m, o)
         IN  <<m>> \o sorted(S \ {m})

---------------------------------------------------------------------------
(* parse_conda_export *)

\* Mutant of parse_lines: comment lines are not skipped.
RECURSIVE parse_lines_keep_comments(_, _)
parse_lines_keep_comments(lines, req) ==
    IF lines = <<>> THEN req
    ELSE LET line == strip(Head(lines))
             name == strip(split_eq_first(line))
         IN  IF line = <<>> \/ name = <<>>
             THEN parse_lines_keep_comments(Tail(lines), req)
             ELSE parse_lines_keep_comments(Tail(lines),
                                            req \cup {normalize(name)})

\* The for loop of parse_conda_export over the lines of the file.
RECURSIVE parse_lines(_, _)
parse_lines(lines, req) ==
    IF lines = <<>> THEN req
    ELSE LET line == strip(Head(lines))
         IN  IF line = <<>> \/ Head(line) = "#"
             THEN parse_lines(Tail(lines), req)
             ELSE LET name == strip(split_eq_first(line))
                  IN  IF name = <<>>
                      THEN parse_lines(Tail(lines), req)
                      ELSE parse_lines(Tail(lines), req \cup {normalize(name)})

parse_conda_export(text) == parse_lines(splitlines(text), {})

---------------------------------------------------------------------------
(* docker_conda_list_json: the loop over the parsed records *)

\* installed[k] = v
dict_set(d, k, v) == [x \in DOMAIN d \cup {k} |-> IF x = k THEN v ELSE d[x]]

EmptyDict == [x \in {} |-> <<>>]

\* rec.get("version", "")
get_version(rec) == IF rec.has_version THEN rec.version ELSE <<>>

\* Mutant of installed_loop: the first record of a name wins, not the last.
RECURSIVE installed_loop_first_wins(_, _)
installed_loop_first_wins(data, d) ==
    IF data = <<>> THEN d
    ELSE LET rec == Head(data)
         IN  IF ~rec.has_name \/ rec.name = <<>>
                \/ normalize(rec.name) \in DOMAIN d
             THEN installed_loop_first_wins(Tail(data), d)
             ELSE installed_loop_first_wins(
                      Tail(data),
                      dict_set(d, normalize(rec.name), get_version(rec)))

\* `for rec in data`: n = rec.get("name"); if not n: continue;
\* installed[normalize(n)] = rec.get("version", "")
RECURSIVE installed_loop(_, _)
installed_loop(data, d) ==
    IF data = <<>> THEN d
    ELSE LET rec == Head(data)
         IN  IF ~rec.has_name \/ rec.name = <<>>
             THEN installed_loop(Tail(data), d)
             ELSE installed_loop(
                      Tail(data),
                      dict_set(d, normalize(rec.name), get_version(rec)))

---------------------------------------------------------------------------
(* Output lines and exit statuses *)

Line(kind, name, n) == [kind |-> kind, name |-> name, n |-> n]

\* return 0 / return 1 / return 2 of main, and the status the interpreter
\* ends with when an exception leaves main uncaught.
EXIT_OK == 0
EXIT_MISSING == 1
EXIT_NO_PINS == 2
EXIT_UNCAUGHT == 1

NotExited == 0 - 1

RECURSIVE bullets(_)
bullets(ms) ==
    IF ms = <<>> THEN <<>>
    ELSE <<Line("bullet", Head(ms), 0)>> \o bullets(Tail(ms))

---------------------------------------------------------------------------
(* Inputs of a run *)

MaxPinLines == 2
MaxIgnoreArgs == 1
MaxRecords == 2
MaxTextLen == 4
MaxNameLen == 2

SeqsUpTo(S, n) == UNION {[1..k -> S] : k \in 0..n}

\* A file of the given lines, each ended by a line break.
RECURSIVE FileOf(_)
FileOf(lines) ==
    IF lines = <<>> THEN <<>>
    ELSE Head(lines) \o <<"\n">> \o FileOf(Tail(lines))

\* Lines of a pins file: name=version=build, name=version, name, a comment.
PinLineSamples ==
    { <<"A","_","b","=","1","=","0">>,
      <<"b","=","2">>,
      <<"a">>,
      <<"#"," ","b">> }

\* --ignore arguments.
IgnoreSamples == { <<"B">>, <<"a","-","B">> }

Rec(has_name, name, has_version, version) ==
    [has_name |-> has_name, name |-> name,
     has_version |-> has_version, version |-> version]

\* Records of `conda list --json`.
RecordSamples ==
    { Rec(TRUE, <<"a","-","b">>, TRUE, <<"1">>),
      Rec(TRUE, <<"A">>, TRUE, <<"2">>),
      Rec(TRUE, <<"a">>, TRUE, <<"1">>),
      Rec(TRUE, <<"b">>, FALSE, <<>>),
      Rec(TRUE, <<>>, TRUE, <<"1">>),
      Rec(FALSE, <<>>, FALSE, <<>>) }

Absent == [kind |-> "absent", text |-> <<>>]
Directory == [kind |-> "dir", text |-> <<>>]
File(text) == [kind |-> "file", text |-> text]

PinsFiles ==
    {Absent, Directory}
    \cup {File(FileOf(ls)) : ls \in SeqsUpTo(PinLineSamples, MaxPinLines)}

NoProc == [kind |-> "none", data |-> <<>>]

\* What the child process can do: exit non-zero, exit 0 with output that is
\* not JSON, exit 0 with a JSON list of records.
ProcResults ==
    { [kind |-> "nonzero", data |-> <<>>],
      [kind |-> "garbage", data |-> <<>>] }
    \cup {[kind |-> "ok", data |-> d] : d \in SeqsUpTo(RecordSamples, MaxRecords)}

---------------------------------------------------------------------------
(* main *)

\* pins_path.exists()
\* Mutant: the existence check always passes.
pins_exists_always(f) == TRUE

pins_exists(f) == f.kind # "absent"

Exit(code) ==
    /\ pc' = "done"
    /\ exitCode' = code

\* An exception that leaves main: the interpreter prints the traceback and
\* exits.
Uncaught(exc) ==
    /\ stderr' = Append(stderr, Line(exc, <<>>, 0))
    /\ Exit(EXIT_UNCAUGHT)

\* if not pins_path.exists(): print(...); return 2
CheckPins ==
    /\ pc = "start"
    /\ IF ~pins_exists(pinsFile)
       THEN /\ stderr' = Append(stderr, Line("ERROR: pins file not found", <<>>, 0))
            /\ Exit(EXIT_NO_PINS)
       ELSE /\ pc' = "parse"
            /\ UNCHANGED <<stderr, exitCode>>
    /\ UNCHANGED <<pinsFile, argvIgnore, required, ignore, proc, installed,
                   missing, stdout, launches>>

\* required = parse_conda_export(pins_path); path.read_text raises OSError
\* for a path that is no readable file.
ParsePins ==
    /\ pc = "parse"
    /\ IF pinsFile.kind = "file"
       THEN /\ required' = parse_conda_export(pinsFile.text)
            /\ pc' = "ignore"
            /\ UNCHANGED <<stderr, exitCode>>
       ELSE /\ Uncaught("Traceback: OSError")
            /\ UNCHANGED required
    /\ UNCHANGED <<pinsFile, argvIgnore, ignore, proc, installed, missing,
                   stdout, launches>>

\* Mutant of ignore_set: the --ignore arguments are used as given.
ignore_set_raw(args) == {args[i] : i \in 1..Len(args)}

\* {normalize(x) for x in args.ignore}
ignore_set(args) == {normalize(args[i]) : i \in 1..Len(args)}

\* ignore = {...}; required = {p for p in required if p not in ignore}
FilterIgnored ==
    /\ pc = "ignore"
    /\ ignore' = ignore_set(argvIgnore)
    /\ required' = {p \in required : p \notin ignore'}
    /\ pc' = "inspect"
    /\ UNCHANGED <<pinsFile, argvIgnore, proc, installed, missing, stdout,
                   stderr, launches, exitCode>>

\* Mutant of Inspect: a failed invocation is tried once more.
InspectWithRetry ==
    /\ pc = "inspect"
    /\ launches' = launches + 1
    /\ \E result \in ProcResults :
         /\ proc' = result
         /\ IF result.kind = "ok"
            THEN /\ installed' = installed_loop(result.data, EmptyDict)
                 /\ pc' = "compare"
                 /\ UNCHANGED <<stderr, exitCode>>
            ELSE /\ UNCHANGED installed
                 /\ IF launches = 0
                    THEN UNCHANGED <<pc, stderr, exitCode>>
                    ELSE Uncaught("Traceback: CalledProcessError")
    /\ UNCHANGED <<pinsFile, argvIgnore, required, ignore, missing, stdout>>

\* installed = docker_conda_list_json(args.image, args.env)
Inspect ==
    /\ pc = "inspect"
    /\ launches' = launches + 1
    /\ \E result \in ProcResults :
         /\ proc' = result
         /\ CASE result.kind = "nonzero" ->
                   \* except CalledProcessError: print, print(e.output), raise
                   /\ stderr' = stderr \o
                        << Line("ERROR: failed to run conda list inside container.", <<>>, 0),
                           Line("e.output", <<>>, 0),
                           Line("Traceback: CalledProcessError", <<>>, 0) >>
                   /\ Exit(EXIT_UNCAUGHT)
                   /\ UNCHANGED installed
              [] result.kind = "garbage" ->
                   \* json.loads(out) raises outside the try block
                   /\ Uncaught("Traceback: JSONDecodeError")
                   /\ UNCHANGED installed
              [] result.kind = "ok" ->
                   /\ installed' = installed_loop(result.data, EmptyDict)
                   /\ pc' = "compare"
                   /\ UNCHANGED <<stderr, exitCode>>
    /\ UNCHANGED <<pinsFile, argvIgnore, required, ignore, missing, stdout>>

\* missing = sorted([p for p in required if p not in installed])
Compare ==
    /\ pc = "compare"
    /\ missing' = sorted({p \in required : p \notin DOMAIN installed})
    /\ pc' = "report"
    /\ UNCHANGED <<pinsFile, argvIgnore, required, ignore, proc, installed,
                   stdout, stderr, launches, exitCode>>

Summary ==
    << Line("Image:", <<>>, 0),
       Line("Env:", <<>>, 0),
       Line("Pins file:", <<>>, 0),
       Line("Required packages (from pins):", <<>>, Cardinality(required)),
       Line("Installed packages (from image):", <<>>, Cardinality(DOMAIN installed)),
       Line("", <<>>, 0) >>

\* Mutant of Report: the run returns 0 whatever is missing.
ReportAlwaysOk ==
    /\ pc = "report"
    /\ stdout' = stdout \o Summary \o <<Line("OK:", <<>>, 0)>>
    /\ Exit(EXIT_OK)
    /\ UNCHANGED <<pinsFile, argvIgnore, required, ignore, proc, installed,
                   missing, stderr, launches>>

\* The prints of main and its return 1 / return 0.
Report ==
    /\ pc = "report"
    /\ IF missing # <<>>
       THEN /\ stdout' = stdout \o Summary
                         \o <<Line("MISSING packages", <<>>, 0)>>
                         \o bullets(missing)
                         \o <<Line("", <<>>, 0)>>
            /\ Exit(EXIT_MISSING)
       ELSE /\ stdout' = stdout \o Summary \o <<Line("OK:", <<>>, 0)>>
            /\ Exit(EXIT_OK)
    /\ UNCHANGED <<pinsFile, argvIgnore, required, ignore, proc, installed,
                   missing, stderr, launches>>

\* The state of a run at the entry of main, after parse_args.
Fresh ==
    /\ required = {}
    /\ ignore = {}
    /\ proc = NoProc
    /\ installed = EmptyDict
    /\ missing = <<>>
    /\ stdout = <<>>
    /\ stderr = <<>>
    /\ launches = 0
    /\ exitCode = NotExited

Init ==
    /\ pc = "start"
    /\ pinsFile \in PinsFiles
    /\ argvIgnore \in SeqsUpTo(IgnoreSamples, MaxIgnoreArgs)
    /\ Fresh

Next ==
    \/ CheckPins
    \/ ParsePins
    \/ FilterIgnored
    \/ Inspect
    \/ Compare
    \/ Report

Spec == Init /\ [][Next]_vars

---------------------------------------------------------------------------
(* Specifications that apply one step to every input of a bounded set *)

\* Characters of the names given to normalize.
NameAlphabet == {" ", "-", "_", "A", "a", "b"}

\* Characters of the texts given to parse_conda_export.
TextAlphabet == {" ", "#", "=", "\n", "a", "B"}

\* The spec's example: "# comment", "", "a=1.0=0", "b=2.0", "c".
ExamplePins ==
    FileOf(<< <<"#"," ","c","o","m","m","e","n","t">>,
              <<>>,
              <<"a","=","1",".","0","=","0">>,
              <<"b","=","2",".","0">>,
              <<"c">> >>)

\* FilterIgnored applied to every pair of names: ignore becomes the set of
\* their normalizations.
InitNormalize ==
    /\ pc = "ignore"
    /\ pinsFile = File(<<>>)
    /\ argvIgnore \in [1..2 -> SeqsUpTo(NameAlphabet, MaxNameLen)]
    /\ Fresh

SpecNormalize == InitNormalize /\ [][FilterIgnored]_vars

\* ParsePins applied to every text.
InitParse ==
    /\ pc = "parse"
    /\ pinsFile \in {File(t) : t \in SeqsUpTo(TextAlphabet, MaxTextLen)}
                    \cup {File(ExamplePins)}
    /\ argvIgnore = <<>>
    /\ Fresh

SpecParse == InitParse /\ [][ParsePins]_vars

---------------------------------------------------------------------------
(* Vocabulary of the properties, stated without the code's algorithms *)

Min(S) == CHOOSE m \in S : \A o \in S : m <= o
Max(S) == CHOOSE m \in S : \A o \in S : m >= o
Elems(q) == {q[i] : i \in 1..Len(q)}

\* s without its leading and trailing whitespace.
Trimmed(s) ==
    LET solid == {i \in 1..Len(s) : s[i] \notin Whitespace}
    IN  IF solid = {} THEN <<>> ELSE SubSeq(s, Min(solid), Max(solid))

\* The text left of the first "=", the whole text when there is none.
LeftOfFirstEq(s) ==
    LET eqs == {i \in 1..Len(s) : s[i] = "="}
    IN  IF eqs = {} THEN s ELSE SubSeq(s, 1, Min(eqs) - 1)

\* The two characters are one letter in two cases, or "_" and "-".
CharVariant(c, d) ==
    \/ c = d
    \/ {c, d} = {"_", "-"}
    \/ \E i \in 1..Len(UPPER) : {c, d} = {UPPER[i], LOWER[i]}

\* x and y differ only in letter case and in "_" versus "-".
SameUpToCaseAndSeparator(x, y) ==
    /\ Len(x) = Len(y)
    /\ \A i \in 1..Len(x) : CharVariant(x[i], y[i])

\* The lines of a text: its maximal stretches without a line break.
LineBreaks == {"\n", "\r"}

LinesOf(text) ==
    {SubSeq(text, i, j) : <<i, j>> \in
        {<<i, j>> \in (1..(Len(text) + 1)) \X (0..Len(text)) :
            /\ i <= j + 1
            /\ i = 1 \/ text[i - 1] \in LineBreaks
            /\ j = Len(text) \/ text[j + 1] \in LineBreaks
            /\ \A k \in i..j : text[k] \notin LineBreaks}}

\* The name a line of the manifest gives.
NameField(l) == Trimmed(LeftOfFirstEq(Trimmed(l)))

\* The lines that are no comment, not blank, and have a name.
EntryLines(text) ==
    {l \in LinesOf(text) :
        /\ Trimmed(l) # <<>>
        /\ Trimmed(l)[1] # "#"
        /\ NameField(l) # <<>>}

PinNames(text) == {NameField(l) : l \in EntryLines(text)}

\* a comes before b in code point order.
Precedes(a, b) ==
    \E k \in 1..Len(b) :
        /\ k <= Len(a) + 1
        /\ \A i \in 1..(k - 1) : a[i] = b[i]
        /\ k = Len(a) + 1 \/ Ord[a[k]] < Ord[b[k]]

\* The indices of the records that have a non-empty name.
Named(data) ==
    {i \in 1..Len(data) : data[i].has_name /\ data[i].name # <<>>}

InspectionFailed == proc.kind \in {"nonzero", "garbage"}
InspectionSucceeded == proc.kind = "ok"

HasLine(out, kind) == \E i \in 1..Len(out) : out[i].kind = kind

IsBullet(l) == l.kind = "bullet"

RECURSIVE NamesOf(_)
NamesOf(ls) ==
    IF ls = <<>> THEN <<>> ELSE <<Head(ls).name>> \o NamesOf(Tail(ls))

---------------------------------------------------------------------------
(* Properties *)

PinsNotFound == Line("ERROR: pins file not found", <<>>, 0)

\* C1: in a run whose --pins path does not exist, main goes from its entry
\* straight to the exit with status 2: the container is never launched,
\* nothing is printed to stdout (no summary, no MISSING list, no OK line),
\* and the only output is the "pins file not found" error.
C1_MissingPinsExits2 ==
    pinsFile = Absent =>
        /\ pc \in {"start", "done"}
        /\ launches = 0
        /\ proc = NoProc
        /\ stdout = <<>>
        /\ pc = "start" => ENABLED CheckPins
        /\ pc = "done" => exitCode = EXIT_NO_PINS /\ stderr = <<PinsNotFound>>

C1_Witness ==
    /\ pinsFile = Absent
    /\ pc = "done"
    /\ exitCode = EXIT_NO_PINS
    /\ launches = 0

\* C2: in a finished run whose inspection succeeded, the exit status is 0 or
\* 1; it is 0 exactly when the missing list is empty, and then the OK line
\* is printed and no bullet; it is 1 exactly when the list is not empty, and
\* then the bullets printed are the missing names, each once and in the
\* list's order, and no OK line is printed.
C2_ExitStatusFollowsMissing ==
    (pc = "done" /\ InspectionSucceeded) =>
        /\ exitCode \in {EXIT_OK, EXIT_MISSING}
        /\ exitCode = EXIT_OK <=> missing = <<>>
        /\ exitCode = EXIT_MISSING <=> missing # <<>>
        /\ NamesOf(SelectSeq(stdout, IsBullet)) = missing
        /\ HasLine(stdout, "OK:") <=> exitCode = EXIT_OK
        /\ HasLine(stdout, "MISSING packages") <=> exitCode = EXIT_MISSING

C2_Witness ==
    /\ pc = "done"
    /\ InspectionSucceeded
    /\ exitCode = EXIT_MISSING
    /\ Len(missing) = 2
    /\ NamesOf(SelectSeq(stdout, IsBullet)) = missing

\* The normalized pin names that are neither ignored nor installed.
ExpectedMissing ==
    {n \in {normalize(p) : p \in PinNames(pinsFile.text)} :
        /\ \A i \in 1..Len(argvIgnore) : n # normalize(argvIgnore[i])
        /\ \A i \in Named(proc.data) : n # normalize(proc.data[i].name)}

\* C3: once the comparison is made, the missing list is in strictly
\* ascending code point order (so without duplicates) and holds exactly the
\* normalized pin names that are in no normalized --ignore argument and
\* equal no installed record's normalized name; no name of the list matches
\* an installed name up to letter case and "_" versus "-".
C3_MissingIsSortedDifference ==
    (pc \in {"report", "done"} /\ InspectionSucceeded) =>
        /\ \A i, j \in 1..Len(missing) :
               i < j => Precedes(missing[i], missing[j])
        /\ Elems(missing) = ExpectedMissing
        /\ \A m \in Elems(missing) : \A i \in Named(proc.data) :
               ~SameUpToCaseAndSeparator(m, Trimmed(proc.data[i].name))

C3_Witness ==
    /\ pc = "done"
    /\ <<"A","_","b">> \in PinNames(pinsFile.text)
    /\ \E i \in 1..Len(proc.data) : proc.data[i].name = <<"a","-","b">>
    /\ missing = << <<"b">> >>

\* C4: a run whose container process exits non-zero ends with an exit
\* status that is not 0, not 1 and not 2.
C4_FailureStatusIsDistinct ==
    (pc = "done" /\ proc.kind = "nonzero") =>
        exitCode \notin {EXIT_OK, EXIT_MISSING, EXIT_NO_PINS}

\* C5: in a run whose inspection failed, by a non-zero exit or by output
\* that does not parse, the error message and the captured transcript are
\* printed to stderr, and neither the comparison nor any line of stdout is
\* reached.
C5_FailureIsPrintedWithTranscript ==
    InspectionFailed =>
        /\ HasLine(stderr, "ERROR: failed to run conda list inside container.")
        /\ HasLine(stderr, "e.output")
        /\ pc = "done"
        /\ stdout = <<>>
        /\ missing = <<>>
        /\ installed = EmptyDict

\* C6: once the ignore set is applied, a pin name that matches an --ignore
\* argument up to letter case, "_" versus "-" and surrounding whitespace is
\* not in the required set and not in the missing list; the required set is
\* exactly the normalized pin names that equal no normalized --ignore
\* argument; and the printed "Required packages" count is its size.
C6_IgnoreIsNormalized ==
    (pc \in {"inspect", "compare", "report", "done"} /\ pinsFile.kind = "file") =>
        LET kept == {n \in {normalize(p) : p \in PinNames(pinsFile.text)} :
                        \A i \in 1..Len(argvIgnore) :
                            n # normalize(argvIgnore[i])}
        IN  /\ required = kept
            /\ Elems(missing) \subseteq required
            /\ \A n \in required \cup Elems(missing) :
                 \A i \in 1..Len(argvIgnore) :
                   ~SameUpToCaseAndSeparator(n, Trimmed(argvIgnore[i]))
            /\ \A i \in 1..Len(stdout) :
                 stdout[i].kind = "Required packages (from pins):"
                     => stdout[i].n = Cardinality(kept)

C6_Witness ==
    /\ pc = "done"
    /\ argvIgnore = << <<"B">> >>
    /\ PinNames(pinsFile.text) = { <<"b">>, <<"a">> }
    /\ required = { <<"a">> }
    /\ \E i \in 1..Len(stdout) :
         stdout[i].kind = "Required packages (from pins):" /\ stdout[i].n = 1

\* C7 as claimed: at most one invocation, a failed invocation is fatal, and
\* every finished run that passed the pins-file check made exactly one
\* invocation.
C7_ExactlyOneInvocationOncePinsExist ==
    /\ launches <= 1
    /\ InspectionFailed => pc = "done" /\ exitCode # EXIT_OK
    /\ (pc = "done" /\ pinsFile # Absent) => launches = 1

\* C7 as amended: at most one invocation, never a second one after the
\* first succeeded or failed; a failed invocation ends the run with a
\* non-zero status; every run that read its pins file makes exactly one
\* invocation; a run whose pins path exists but cannot be read as a file (a
\* directory) ends by the uncaught OSError with no invocation at all.
C7_AtMostOneInvocation ==
    /\ launches <= 1
    /\ launches = 1 <=> proc # NoProc
    /\ InspectionFailed => pc = "done" /\ exitCode # EXIT_OK
    /\ (pc \in {"compare", "report", "done"} /\ pinsFile.kind = "file")
           => launches = 1
    /\ pc = "inspect" => ENABLED Inspect
    /\ pinsFile.kind # "file" => launches = 0
    /\ (pc = "done" /\ pinsFile = Directory) => exitCode = EXIT_UNCAUGHT

C7_Witness ==
    /\ pc = "done"
    /\ proc.kind = "nonzero"
    /\ launches = 1
    /\ exitCode = EXIT_UNCAUGHT

\* C8: parse_conda_export returns exactly the normalized names of the lines
\* of the text that, trimmed, are not empty and do not start with "#", the
\* name being the trimmed text left of the first "=" (the whole line when it
\* has none); a line with an empty name gives nothing; the example of the
\* spec gives {"a", "b", "c"}.
C8_ParseYieldsEntryNames ==
    pc = "ignore" =>
        /\ required = {normalize(p) : p \in PinNames(pinsFile.text)}
        /\ pinsFile.text = ExamplePins
               => required = { <<"a">>, <<"b">>, <<"c">> }

C8_Witness ==
    /\ pc = "ignore"
    /\ pinsFile.text = ExamplePins
    /\ required = { <<"a">>, <<"b">>, <<"c">> }

\* C9 as claimed: the result of normalize is a fixed point of normalize;
\* two names have the same normalization if and only if they differ only in
\* letter case and in "_" versus "-".
C9_NormalizeSeparatesAllOtherNames ==
    pc = "inspect" =>
        /\ \A n \in ignore : normalize(n) = n
        /\ Cardinality(ignore) = 1
               <=> SameUpToCaseAndSeparator(argvIgnore[1], argvIgnore[2])

\* C9 as amended: the result of normalize is a fixed point of normalize;
\* two names have the same normalization if and only if, leading and
\* trailing whitespace removed, they differ only in letter case and in "_"
\* versus "-".
C9_NormalizeCollapsesVariants ==
    pc = "inspect" =>
        /\ \A n \in ignore : normalize(n) = n
        /\ Cardinality(ignore) = 1
               <=> SameUpToCaseAndSeparator(Trimmed(argvIgnore[1]),
                                            Trimmed(argvIgnore[2]))

C9_Witness ==
    /\ pc = "inspect"
    /\ argvIgnore = << <<"A","_">>, <<"a","-">> >>
    /\ ignore = { <<"a","-">> }

\* C10: after a successful inspection the keys of the installed map are
\* exactly the normalized names of the records that have a non-empty name;
\* a record without a name or with an empty one is skipped and the run goes
\* on without any error output; each key maps to the version of the last
\* record of that key, the empty string when that record has no version.
C10_InstalledMapOfRecords ==
    InspectionSucceeded =>
        LET data == proc.data
        IN  /\ DOMAIN installed = {normalize(data[i].name) : i \in Named(data)}
            /\ \A k \in DOMAIN installed :
                 LET last == Max({i \in Named(data) : normalize(data[i].name) = k})
                 IN  installed[k] = IF data[last].has_version
                                    THEN data[last].version
                                    ELSE <<>>
            /\ stderr = <<>>
            /\ pc \in {"compare", "report", "done"}
            /\ pc = "done" => exitCode \in {EXIT_OK, EXIT_MISSING}

C10_Witness ==
    /\ InspectionSucceeded
    /\ proc.data = << Rec(TRUE, <<"A">>, TRUE, <<"2">>),
                      Rec(TRUE, <<"a">>, TRUE, <<"1">>) >>
    /\ installed[<<"a">>] = <<"1">>

===========================================================================
